---- MODULE Spec2Model ----
(***************************************************************************)
(* A model of kbnf's Vocabulary (src/kbnf/src/vocabulary.rs), of the       *)
(* sizing scans and of construct_ebnf_grammar (src/kbnf/src/utils.rs).     *)
(*                                                                         *)
(* Maps are TLA+ functions; Option<T> is a sequence of length 0 (None) or  *)
(* 1 (Some).  A HashMap's iteration order is not fixed by the program: it  *)
(* is chosen when the map is handed to Vocabulary::new and kept in         *)
(* iter_order.                                                             *)
(***************************************************************************)
EXTENDS Integers, Sequences, FiniteSets, TLC

VARIABLES
    \* ---- Vocabulary::new and the Vocabulary it returns
    vpc,                          \* "start" | "built" | "panicked"
    args,                         \* the three maps handed to Vocabulary::new
    iter_order,                   \* iteration order of id_to_token.iter()
    token_to_id,
    id_to_token,
    id_to_token_string,
    first_byte_to_normal_tokens,  \* the jagged array: one row per first byte
    tokens_containing_separators,
    \* ---- TokensIter cursors and the last point lookup
    iters,
    lookup,
    \* ---- sizing scans over a SimplifiedGrammar
    grammar,
    sizes,
    \* ---- construct_ebnf_grammar
    ppc,
    pin,
    stage,
    calls,
    result

vocab == <<token_to_id, id_to_token, id_to_token_string,
           first_byte_to_normal_tokens, tokens_containing_separators>>
vocabVars == <<vpc, args, iter_order, token_to_id, id_to_token, id_to_token_string,
               first_byte_to_normal_tokens, tokens_containing_separators>>
readerVars == <<iters, lookup>>
sizingVars == <<grammar, sizes>>
pipelineVars == <<ppc, pin, stage, calls, result>>
vars == <<vocabVars, readerVars, sizingVars, pipelineVars>>

-----------------------------------------------------------------------------
(* Bounds of the model *)

\* most entries of id_to_token that carry a token the model spells out
MaxEntries == 2
\* longest token, in bytes
MaxTokenLen == 2
\* most rules, alternatives and symbols of a grammar, counted together
MaxNodes == 5
\* most interned terminals, most regex automata and most except automata of a grammar
MaxAutomata == 1

(* Program constants *)

TOKEN_SEPARATOR == 255
\* 0x1000000, the limit of the assert in Vocabulary::new
MAX_VOCAB_LEN == 16777216

Bytes == 0..255

None == <<>>
Some(x) == <<x>>

\* the bytes tokens are made of: two ordinary bytes and the separator
TokenBytes == {97, 98, TOKEN_SEPARATOR}
\* the first bytes a cursor is asked for: those, and a byte no token starts with
ProbeBytes == TokenBytes \cup {0}
Tokens == UNION {[1..n -> TokenBytes] : n \in 0..MaxTokenLen}
\* u32 keys: 255 holds a 0xFF byte, and 16777471 = 2^24 + 255 has the same low 3 bytes
SampleIds == {1, 255, 16777471}

(***************************************************************************)
(* id_to_token is a HashMap<u32, Token>.  Its entries are given as         *)
(* `small`, a function from the keys whose tokens are spelled out, and     *)
(* `bulk`, the number of further entries, stored under the keys            *)
(* BulkBase .. BulkBase + bulk - 1, whose tokens are all zero-length.      *)
(* That is how a map of 2^24 entries is written down.                      *)
(***************************************************************************)
BulkBase == 2 * MAX_VOCAB_LEN
BulkSizes == {0, 1, MAX_VOCAB_LEN - 1, MAX_VOCAB_LEN}

MapLen(m) == Cardinality(DOMAIN m.small) + m.bulk
IsBulkKey(m, k) == k >= BulkBase /\ k < BulkBase + m.bulk
MapGet(m, k) ==
    IF k \in DOMAIN m.small THEN Some(m.small[k])
    ELSE IF IsBulkKey(m, k) THEN Some(<<>>)
    ELSE None

EmptyMap == [small |-> <<>>, bulk |-> 0]

Range(f) == {f[x] : x \in DOMAIN f}
Contains(s, x) == \E i \in 1..Len(s) : s[i] = x

\* the concatenation ss[lo] \o ... \o ss[hi]
RECURSIVE FlattenRange(_, _, _)
FlattenRange(ss, lo, hi) ==
    IF lo > hi THEN <<>>
    ELSE IF lo = hi THEN ss[lo]
    ELSE LET mid == (lo + hi) \div 2
         IN  FlattenRange(ss, lo, mid) \o FlattenRange(ss, mid + 1, hi)
Flatten(ss) == FlattenRange(ss, 1, Len(ss))

-----------------------------------------------------------------------------
(* Vocabulary::new *)

\* faulty variant: the assert compares with <= instead of <
NewPanicsOffByOne(len) == ~(len <= MAX_VOCAB_LEN)

\* the assert of lines 98-102 fails
NewPanics(len) == ~(len < MAX_VOCAB_LEN)

\* token_id.to_le_bytes()
ToLeBytes(id) ==
    <<id % 256, (id \div 256) % 256, (id \div 65536) % 256, (id \div 16777216) % 256>>
\* u32::from_le_bytes(buffer); the callers pass a buffer whose top byte is 0
FromLeBytes(buffer) ==
    buffer[1] + 256 * buffer[2] + 65536 * buffer[3] + 16777216 * buffer[4]

\* the entries (token_id, token) in the order id_to_token.iter() yields them,
\* as far as they have a token of at least one byte (lines 105-108)
Entries(m, order) ==
    LET all == [k \in 1..Len(order) |-> <<order[k], m.small[order[k]]>>]
        NonEmpty(e) == e[2] # <<>>
    IN  SelectSeq(all, NonEmpty)

\* temp[first_byte] after the first loop (lines 104-111)
Temp(m, order, first_byte) ==
    LET StartsWith(e) == e[2][1] = first_byte
    IN  SelectSeq(Entries(m, order), StartsWith)

\* faulty variant: the run holds the token without its first byte, which the row implies
RunBufferRemainingBytes(token_id, token) ==
    <<TOKEN_SEPARATOR>> \o SubSeq(ToLeBytes(token_id), 1, 3) \o Tail(token)

\* the buffer one normal token adds to its row (lines 116, 121, 122)
RunBuffer(token_id, token) ==
    <<TOKEN_SEPARATOR>> \o SubSeq(ToLeBytes(token_id), 1, 3) \o token

\* faulty variant: only the first byte of the token is compared with the separator
IsSeparatedFirstByteOnly(token) == token[1] = TOKEN_SEPARATOR

\* whether the token goes to tokens_containing_separators (line 117)
IsSeparated(token) == Contains(token, TOKEN_SEPARATOR)

\* faulty variant: the `continue` of line 119 is missing, so every token of the bucket is written
RowOfWithoutContinue(tokens) ==
    Flatten([k \in 1..Len(tokens) |->
                <<TOKEN_SEPARATOR>> \o SubSeq(ToLeBytes(tokens[k][1]), 1, 3) \o tokens[k][2]])

\* the inner loop over one bucket (lines 115-124): the bytes of the new row
RowOf(tokens) ==
    LET Normal(e) == ~IsSeparated(e[2])
        kept == SelectSeq(tokens, Normal)
    IN  Flatten([k \in 1..Len(kept) |-> RunBuffer(kept[k][1], kept[k][2])])

\* the inner loop over one bucket: what it pushes to tokens_containing_separators
SeparatedOf(tokens) ==
    LET Sep(e) == IsSeparated(e[2])
    IN  SelectSeq(tokens, Sep)

\* the outer loop (lines 113-125): row b of the jagged array is at index b + 1
BuildRows(m, order) == [k \in 1..256 |-> RowOf(Temp(m, order, k - 1))]
BuildSeparated(m, order) ==
    Flatten([k \in 1..256 |-> SeparatedOf(Temp(m, order, k - 1))])

Orders(S) ==
    {s \in [1..Cardinality(S) -> S] : \A i, j \in 1..Cardinality(S) : s[i] = s[j] => i = j}

New(t2i, i2t, i2s, order) ==
    /\ vpc = "start"
    /\ args' = [token_to_id |-> t2i, id_to_token |-> i2t, id_to_token_string |-> i2s]
    /\ IF NewPanics(MapLen(i2t))
       THEN /\ vpc' = "panicked"
            /\ UNCHANGED <<iter_order, token_to_id, id_to_token, id_to_token_string,
                           first_byte_to_normal_tokens, tokens_containing_separators>>
       ELSE /\ vpc' = "built"
            /\ iter_order' = order
            /\ token_to_id' = t2i
            /\ id_to_token' = i2t
            /\ id_to_token_string' = i2s
            /\ first_byte_to_normal_tokens' = BuildRows(i2t, order)
            /\ tokens_containing_separators' = BuildSeparated(i2t, order)
    /\ UNCHANGED <<readerVars, sizingVars, pipelineVars>>

-----------------------------------------------------------------------------
(* The readers of a Vocabulary *)

\* self.first_byte_to_normal_tokens.view::<1, 1>([first_byte]).as_slice()
RowSlice(first_byte) == first_byte_to_normal_tokens[first_byte + 1]

\* NonMaxU32::new(u32::from_le_bytes(buffer)): None exactly for u32::MAX, whose
\* four bytes are all 0xFF
NonMaxU32New(buffer) ==
    IF \A k \in 1..4 : buffer[k] = 255 THEN None ELSE Some(FromLeBytes(buffer))

FreshIter(first_byte) ==
    [open |-> TRUE, first_byte |-> first_byte, pos |-> 0, current_token_id |-> None,
     ret |-> "fresh", out |-> <<>>]
ClosedIter ==
    [open |-> FALSE, first_byte |-> 0, pos |-> 0, current_token_id |-> None,
     ret |-> "fresh", out |-> <<>>]

\* one element of out: the item yielded, its byte if it is a TokenByte, and
\* get_current_token_id() right after it
Yielded(item, byte, id) == [item |-> item, byte |-> byte, id |-> id]

(***************************************************************************)
(* TokensIter::next on the cursor `it` over `slice`.  pos is the number of *)
(* bytes the slice iterator has consumed; ret is what the call returned    *)
(* ("None", "NewToken", "TokenByte") or "panic" when an unwrap failed; out *)
(* lists the items yielded so far, each with get_current_token_id() right  *)
(* after it.                                                               *)
(***************************************************************************)
IterNext(it, slice) ==
    IF it.pos >= Len(slice)
    THEN [it EXCEPT !.ret = "None"]
    ELSE LET x == slice[it.pos + 1] IN
         IF x = TOKEN_SEPARATOR
         THEN IF it.pos + 4 > Len(slice)
              THEN [it EXCEPT !.ret = "panic", !.pos = Len(slice)]
              ELSE LET buffer == <<slice[it.pos + 2], slice[it.pos + 3],
                                   slice[it.pos + 4], 0>>
                       id == NonMaxU32New(buffer)
                   IN  IF id = None
                       THEN [it EXCEPT !.ret = "panic", !.pos = it.pos + 4]
                       ELSE [it EXCEPT !.ret = "NewToken", !.pos = it.pos + 4,
                                       !.current_token_id = id,
                                       !.out = Append(it.out, Yielded("NewToken", None, id))]
         ELSE [it EXCEPT !.ret = "TokenByte", !.pos = it.pos + 1,
                         !.out = Append(it.out,
                                         Yielded("TokenByte", Some(x), it.current_token_id))]

get_current_token_id(it) == it.current_token_id

\* get_normal_tokens_from_first_byte: cursor c becomes a fresh cursor over row first_byte
GetNormalTokensFromFirstByte(c, first_byte) ==
    /\ vpc = "built"
    /\ iters' = [iters EXCEPT ![c] = FreshIter(first_byte)]
    /\ UNCHANGED <<vocabVars, lookup, sizingVars, pipelineVars>>

\* faulty variant: every cursor over the same row advances with the one that is stepped,
\* as if the position were kept in the Vocabulary
TokensIterNextSharedPosition(c) ==
    /\ vpc = "built"
    /\ iters[c].open
    /\ iters[c].ret \notin {"None", "panic"}
    /\ LET stepped == IterNext(iters[c], RowSlice(iters[c].first_byte))
       IN  iters' = [d \in DOMAIN iters |->
                        IF d = c THEN stepped
                        ELSE IF iters[d].open /\ iters[d].first_byte = iters[c].first_byte
                             THEN [iters[d] EXCEPT !.pos = stepped.pos]
                             ELSE iters[d]]
    /\ UNCHANGED <<vocabVars, lookup, sizingVars, pipelineVars>>

\* one call of next() on cursor c
TokensIterNext(c) ==
    /\ vpc = "built"
    /\ iters[c].open
    /\ iters[c].ret \notin {"None", "panic"}
    /\ iters' = [iters EXCEPT ![c] = IterNext(iters[c], RowSlice(iters[c].first_byte))]
    /\ UNCHANGED <<vocabVars, lookup, sizingVars, pipelineVars>>

\* a HashMap's get on a map given as a function
HashGet(map, key) == IF key \in DOMAIN map THEN Some(map[key]) ELSE None

\* faulty variant: a token that is not registered gets id 0 instead of None
get_token_id_from_token_or_zero(token) ==
    IF token \in DOMAIN token_to_id THEN Some(token_to_id[token]) ELSE Some(0)

get_token_id_from_token(token) == HashGet(token_to_id, token)
get_token_from_token_id(token_id) == MapGet(id_to_token, token_id)
get_token_string_from_token_id(token_id) == HashGet(id_to_token_string, token_id)
\* faulty variant: the size is taken from token_to_id, which holds each token once
get_vocab_size_of_token_to_id == Cardinality(DOMAIN token_to_id)

get_vocab_size == MapLen(id_to_token)
get_tokens_containing_separators == tokens_containing_separators

\* a read-only call on the Vocabulary; lookup keeps what it returned
Returned(op, key, value) ==
    /\ vpc = "built"
    /\ lookup' = [op |-> op, key |-> key, result |-> value]
    /\ UNCHANGED <<vocabVars, iters, sizingVars, pipelineVars>>

GetTokenIdFromToken(token) ==
    Returned("get_token_id_from_token", token, get_token_id_from_token(token))
GetTokenFromTokenId(token_id) ==
    Returned("get_token_from_token_id", token_id, get_token_from_token_id(token_id))
GetTokenStringFromTokenId(token_id) ==
    Returned("get_token_string_from_token_id", token_id,
             get_token_string_from_token_id(token_id))
GetVocabSize == Returned("get_vocab_size", <<>>, get_vocab_size)
GetTokensContainingSeparators ==
    Returned("get_tokens_containing_separators", <<>>, get_tokens_containing_separators)
GetCurrentTokenId(c) ==
    /\ iters[c].open
    /\ Returned("get_current_token_id", c, get_current_token_id(iters[c]))

-----------------------------------------------------------------------------
(* The sizing scans over a SimplifiedGrammar (utils.rs).  A grammar is        *)
(* [expressions, terminals, id_to_regex, id_to_excepted]: expressions is the  *)
(* sequence of rules, a rule is [alternations], an alternative is             *)
(* [concatenations], a sequence of symbols; terminals are the interned        *)
(* terminal strings as UTF-8 bytes; an automaton is [state_len].              *)

Max2(a, b) == IF a >= b THEN a ELSE b

\* max_x = max_x.max(n) for each n of nums in turn, starting from m
RECURSIVE MaxFold(_, _)
MaxFold(m, nums) ==
    IF nums = <<>> THEN m ELSE MaxFold(Max2(m, Head(nums)), Tail(nums))

\* faulty variant: the loop over id_to_excepted is missing
find_max_state_id_without_excepted(g) ==
    LET terminals == MaxFold(0, [k \in DOMAIN g.terminals |-> Len(g.terminals[k])])
    IN  MaxFold(terminals, [k \in DOMAIN g.id_to_regex |-> g.id_to_regex[k].state_len])

find_max_state_id_from_ebnf_grammar(g) ==
    LET terminals == MaxFold(0, [k \in DOMAIN g.terminals |-> Len(g.terminals[k])])
        regexes == MaxFold(terminals,
                           [k \in DOMAIN g.id_to_regex |-> g.id_to_regex[k].state_len])
    IN  MaxFold(regexes, [k \in DOMAIN g.id_to_excepted |-> g.id_to_excepted[k].state_len])

\* the inner loop of find_max_dotted_position_from_ebnf_grammar over one rule
DottedOfRule(m, rule) ==
    MaxFold(m, [k \in DOMAIN rule.alternations |-> Len(rule.alternations[k].concatenations)])

RECURSIVE DottedLoop(_, _)
DottedLoop(m, rules) ==
    IF rules = <<>> THEN m ELSE DottedLoop(DottedOfRule(m, Head(rules)), Tail(rules))

\* faulty variant: max_dotted_position is assigned the length instead of the maximum
RECURSIVE LastLength(_, _)
LastLength(m, rules) ==
    IF rules = <<>> THEN m
    ELSE LET alts == Head(rules).alternations
         IN  LastLength(IF alts = <<>> THEN m ELSE Len(alts[Len(alts)].concatenations),
                        Tail(rules))
find_max_dotted_position_assigning(g) == LastLength(0, g.expressions)

find_max_dotted_position_from_ebnf_grammar(g) == DottedLoop(0, g.expressions)

find_max_production_id_from_ebnf_grammar(g) ==
    MaxFold(0, [k \in DOMAIN g.expressions |-> Len(g.expressions[k].alternations)])

\* the weight of a grammar: its rules, alternatives and symbols
RECURSIVE SumSeq(_)
SumSeq(nums) == IF nums = <<>> THEN 0 ELSE Head(nums) + SumSeq(Tail(nums))
RuleNodes(rule) ==
    1 + SumSeq([k \in DOMAIN rule.alternations |->
                   1 + Len(rule.alternations[k].concatenations)])
GrammarNodes(g) == SumSeq([k \in DOMAIN g.expressions |-> RuleNodes(g.expressions[k])])

EmptyGrammar ==
    [expressions |-> <<>>, terminals |-> <<>>, id_to_regex |-> <<>>, id_to_excepted |-> <<>>]

\* the grammar changes; no scan has read the new grammar yet
GrammarBecomes(g) ==
    /\ grammar' = g
    /\ sizes' = None
    /\ UNCHANGED <<vocabVars, readerVars, pipelineVars>>

\* a grammar with one more nonterminal, which has the alternatives alts
AddNonterminal(alts) ==
    GrammarBecomes([grammar EXCEPT !.expressions = Append(@, [alternations |-> alts])])

\* a grammar with one more alternative for its r-th nonterminal
AddAlternative(r, alt) ==
    /\ r \in DOMAIN grammar.expressions
    /\ GrammarBecomes([grammar EXCEPT !.expressions[r].alternations = Append(@, alt)])

InternTerminal(bytes) ==
    GrammarBecomes([grammar EXCEPT !.terminals = Append(@, bytes)])
AddRegex(n) ==
    GrammarBecomes([grammar EXCEPT !.id_to_regex = Append(@, [state_len |-> n])])
AddExcepted(n) ==
    GrammarBecomes([grammar EXCEPT !.id_to_excepted = Append(@, [state_len |-> n])])

\* a caller runs the scans over the grammar
FindSizes ==
    /\ sizes = None
    /\ sizes' = Some([max_state_id |-> find_max_state_id_from_ebnf_grammar(grammar),
                      max_dotted_position |->
                          find_max_dotted_position_from_ebnf_grammar(grammar),
                      max_production_id |-> find_max_production_id_from_ebnf_grammar(grammar)])
    /\ UNCHANGED <<grammar, vocabVars, readerVars, pipelineVars>>

-----------------------------------------------------------------------------
(* construct_ebnf_grammar (utils.rs).  ebnf::get_grammar, validate_grammar    *)
(* and simplify_grammar belong to the ebnf crate: what they return is chosen  *)
(* freely among the values their types allow.  ppc is the place the call has  *)
(* reached, calls lists the ebnf functions called so far with their           *)
(* arguments, stage keeps what they returned, result is the value returned.   *)

InternalConfig(start_nonterminal, min_terminals) ==
    [regex_config |-> "regex_config",
     compression_config |-> [min_terminals |-> min_terminals],
     excepted_config |-> "excepted_config",
     start_nonterminal |-> start_nonterminal]

Ok(v) == [ok |-> TRUE, value |-> v, error |-> None]
Err(e) == [ok |-> FALSE, value |-> None, error |-> Some(e)]

\* what ebnf::get_grammar may return: a parsed grammar or a nom::Err, whose
\* errors are (input slice, kind) pairs that borrow from the input
ParseReturns(input) ==
    {[ok |-> TRUE, grammar |-> [form |-> "parsed", text |-> input], error |-> None]}
    \cup {[ok |-> FALSE, grammar |-> None,
           error |-> [kind |-> k, errors |-> <<[slice |-> input, owned |-> FALSE]>>]] :
              k \in {"Error", "Failure"}}
    \cup {[ok |-> FALSE, grammar |-> None, error |-> [kind |-> "Incomplete", errors |-> <<>>]]}

\* what validate_grammar may return
ValidateReturns(g, start_nonterminal) ==
    {[ok |-> TRUE, grammar |-> [form |-> "validated", text |-> g.text], error |-> None]}
    \cup {[ok |-> FALSE, grammar |-> None, error |-> e] :
              e \in {[kind |-> "UndefinedNonterminal", name |-> start_nonterminal],
                     [kind |-> "RegexBuildError", name |-> "regex"]}}

\* the closure of map_err (lines 26-42): the slices are turned into Strings
MapParseError(e) ==
    [kind |-> e.kind,
     errors |-> [k \in DOMAIN e.errors |-> [slice |-> e.errors[k].slice, owned |-> TRUE]]]

\* the conversion `?` applies to the error: a GrammarError that holds it
GrammarErrorFrom(e) == [grammar_error |-> e]

CallConstructEbnfGrammar(input, config) ==
    /\ ppc = "idle"
    /\ ppc' = "get_grammar"
    /\ pin' = [input |-> input, config |-> config]
    /\ UNCHANGED <<stage, calls, result, vocabVars, readerVars, sizingVars>>

\* lines 26-42: get_grammar returns; an error is mapped and returned by `?`
GetGrammarReturns ==
    /\ ppc = "get_grammar"
    /\ \E r \in ParseReturns(pin.input) :
          /\ calls' = Append(calls, [fn |-> "get_grammar", args |-> <<pin.input>>])
          /\ stage' = [stage EXCEPT !.parsed = r]
          /\ IF r.ok
             THEN /\ ppc' = "validate_grammar"
                  /\ result' = result
             ELSE /\ ppc' = "done"
                  /\ result' = Some(Err(GrammarErrorFrom(MapParseError(r.error))))
    /\ UNCHANGED <<pin, vocabVars, readerVars, sizingVars>>

\* faulty variant: the `?` after validate_grammar is missing and the grammar is used anyway
ValidateGrammarReturnsUnchecked ==
    /\ ppc = "validate_grammar"
    /\ \E r \in ValidateReturns(stage.parsed.grammar, pin.config.start_nonterminal) :
          /\ calls' = Append(calls, [fn |-> "validate_grammar",
                                     args |-> <<pin.config.start_nonterminal,
                                                pin.config.regex_config>>])
          /\ stage' = [stage EXCEPT !.validated = r]
          /\ ppc' = "simplify_grammar"
          /\ result' = result
    /\ UNCHANGED <<pin, vocabVars, readerVars, sizingVars>>

\* line 43: validate_grammar returns; an error is returned by `?`
ValidateGrammarReturns ==
    /\ ppc = "validate_grammar"
    /\ \E r \in ValidateReturns(stage.parsed.grammar, pin.config.start_nonterminal) :
          /\ calls' = Append(calls, [fn |-> "validate_grammar",
                                     args |-> <<pin.config.start_nonterminal,
                                                pin.config.regex_config>>])
          /\ stage' = [stage EXCEPT !.validated = r]
          /\ IF r.ok
             THEN /\ ppc' = "simplify_grammar"
                  /\ result' = result
             ELSE /\ ppc' = "done"
                  /\ result' = Some(Err(GrammarErrorFrom(r.error)))
    /\ UNCHANGED <<pin, vocabVars, readerVars, sizingVars>>

\* lines 44-49: simplify_grammar returns a grammar, which is returned as Ok
SimplifyGrammarReturns ==
    /\ ppc = "simplify_grammar"
    /\ calls' = Append(calls, [fn |-> "simplify_grammar",
                               args |-> <<pin.config.compression_config,
                                          pin.config.excepted_config, "anchored">>])
    /\ ppc' = "done"
    /\ result' = Some(Ok([form |-> "simplified", text |-> pin.input,
                          min_terminals |-> pin.config.compression_config.min_terminals]))
    /\ UNCHANGED <<pin, stage, vocabVars, readerVars, sizingVars>>

-----------------------------------------------------------------------------
(* Initial values of the parts a specification leaves alone *)

VocabInit ==
    /\ vpc = "start"
    /\ args = [token_to_id |-> <<>>, id_to_token |-> EmptyMap, id_to_token_string |-> <<>>]
    /\ iter_order = <<>>
    /\ token_to_id = <<>>
    /\ id_to_token = EmptyMap
    /\ id_to_token_string = <<>>
    /\ first_byte_to_normal_tokens = <<>>
    /\ tokens_containing_separators = <<>>

CursorIds == {1, 2}

ReaderInit ==
    /\ iters = [c \in CursorIds |-> ClosedIter]
    /\ lookup = [op |-> "none", key |-> <<>>, result |-> None]

SizingInit ==
    /\ grammar = EmptyGrammar
    /\ sizes = None

PipelineInit ==
    /\ ppc = "idle"
    /\ pin = <<>>
    /\ stage = [parsed |-> [ok |-> FALSE, grammar |-> None, error |-> None],
                validated |-> [ok |-> FALSE, grammar |-> None, error |-> None]]
    /\ calls = <<>>
    /\ result = None

-----------------------------------------------------------------------------
(* Spec: a Vocabulary is built from maps that agree, and one cursor reads it *)

IdToTokenInputs ==
    UNION {[D -> Tokens] : D \in {X \in SUBSET SampleIds : Cardinality(X) <= MaxEntries}}

\* the token_to_id a caller derives from id_to_token (the lowest id of a token wins)
InverseOf(small) ==
    [t \in Range(small) |->
        CHOOSE i \in DOMAIN small :
            small[i] = t /\ \A j \in DOMAIN small : small[j] = t => i <= j]
StringsOf(small) == [i \in DOMAIN small |-> "s"]

Init == VocabInit /\ ReaderInit /\ SizingInit /\ PipelineInit

Next ==
    \/ /\ vpc = "start"
       /\ \E small \in IdToTokenInputs, bulk \in BulkSizes :
            \E order \in Orders(DOMAIN small) :
               New(InverseOf(small), [small |-> small, bulk |-> bulk], StringsOf(small), order)
    \/ \E b \in ProbeBytes : GetNormalTokensFromFirstByte(1, b)
    \/ TokensIterNext(1)

Spec == Init /\ [][Next]_vars

-----------------------------------------------------------------------------
(* What a cursor yields when it is run alone, from the start to None *)

RECURSIVE Drain(_, _)
Drain(it, slice) ==
    IF it.ret \in {"None", "panic"} THEN it ELSE Drain(IterNext(it, slice), slice)
RunAlone(first_byte) == Drain(FreshIter(first_byte), RowSlice(first_byte))

NewTokenCount(out) == Cardinality({k \in 1..Len(out) : out[k].item = "NewToken"})
TokenByteCount(out) == Len(out) - NewTokenCount(out)

\* the runs of an output: each NewToken marker with the id the cursor shows right
\* after it, and the TokenBytes up to the next marker
RunsOf(out) ==
    LET starts == {k \in 1..Len(out) : out[k].item = "NewToken"}
        NthStart(n) == CHOOSE k \in starts : Cardinality({j \in starts : j <= k}) = n
        EndOf(k) == IF \E j \in starts : j > k
                    THEN (CHOOSE j \in starts : j > k /\ \A i \in starts : i > k => j <= i) - 1
                    ELSE Len(out)
    IN  [n \in 1..Cardinality(starts) |->
            LET k == NthStart(n)
            IN  [id |-> out[k].id, bytes |-> [j \in 1..(EndOf(k) - k) |-> out[k + j].byte[1]]]]

\* the keys of id_to_token whose token is non-empty, starts with b and holds no 0xFF
NormalIds(b) ==
    {i \in DOMAIN id_to_token.small :
        LET t == id_to_token.small[i]
        IN  t # <<>> /\ t[1] = b /\ ~Contains(t, 255)}
\* the keys of id_to_token whose token holds a 0xFF
SeparatedIds == {i \in DOMAIN id_to_token.small : Contains(id_to_token.small[i], 255)}

RECURSIVE SumOver(_, _)
SumOver(f, S) ==
    IF S = {} THEN 0
    ELSE LET x == CHOOSE y \in S : TRUE IN f[x] + SumOver(f, S \ {x})

-----------------------------------------------------------------------------
(* C1: for every byte b, the output of get_normal_tokens_from_first_byte(b)   *)
(* ends with None and holds exactly one run per entry of id_to_token whose    *)
(* token is non-empty, starts with b and holds no 0xFF: as many runs as such  *)
(* entries, and every such token, verbatim, as the bytes of as many runs as   *)
(* there are such entries with that token.  So no such entry has a run in     *)
(* another row and no run of row b comes from anything else.                  *)
C1_RowHoldsExactlyItsTokens ==
    vpc = "built" =>
        \A b \in Bytes :
            LET fin == RunAlone(b)
                runs == RunsOf(fin.out)
                ids == NormalIds(b)
            IN  /\ fin.ret = "None"
                /\ fin.out # <<>> => fin.out[1].item = "NewToken"
                /\ Len(runs) = Cardinality(ids)
                /\ \A i \in ids :
                      Cardinality({k \in 1..Len(runs) : runs[k].bytes = id_to_token.small[i]})
                        = Cardinality({j \in ids : id_to_token.small[j] = id_to_token.small[i]})

\* two entries share the first byte 0x61 and a third token starts with another byte
C1_Witness ==
    /\ vpc = "built"
    /\ Cardinality(NormalIds(97)) = 2
    /\ \E i, j \in NormalIds(97) : id_to_token.small[i] # id_to_token.small[j]
    /\ Len(RunsOf(RunAlone(97).out)) = 2

(* C2: every entry (id, token) of id_to_token whose token holds a 0xFF is,    *)
(* with its full id, exactly one element of tokens_containing_separators,     *)
(* which holds nothing else; and it adds no byte to any row: row b is as long *)
(* as the runs of the entries NormalIds(b) alone (4 + token length each), so  *)
(* the row of 0xFF is empty.                                                  *)
C2_SeparatedTokensOnlyInOverflow ==
    vpc = "built" =>
        /\ Len(tokens_containing_separators) = Cardinality(SeparatedIds)
        /\ \A i \in SeparatedIds :
              Cardinality({k \in 1..Len(tokens_containing_separators) :
                              tokens_containing_separators[k] = <<i, id_to_token.small[i]>>}) = 1
        /\ \A b \in Bytes :
              Len(RowSlice(b)) =
                 SumOver([i \in NormalIds(b) |-> 4 + Len(id_to_token.small[i])], NormalIds(b))
        /\ RowSlice(255) = <<>>

\* the token that is the single byte 0xFF, under an id above 2^24, beside a token
\* that holds 0xFF after an ordinary first byte
C2_Witness ==
    /\ vpc = "built"
    /\ Len(tokens_containing_separators) = 2
    /\ \E k \in 1..2 : tokens_containing_separators[k] = <<16777471, <<255>>>>
    /\ \E k \in 1..2 : tokens_containing_separators[k][2] = <<97, 255>>

\* the entries of bucket b that are written to its row, in the order of their runs
NormalEntries(b) ==
    LET Normal(e) == ~Contains(e[2], 255)
    IN  SelectSeq(Temp(id_to_token, iter_order, b), Normal)

(* C3: right after a cursor yields the NewToken marker of a run,              *)
(* get_current_token_id() is the u32 key under which that run's token is      *)
(* stored in id_to_token.                                                     *)
C3_DecodedIdIsKey ==
    \A c \in CursorIds :
        (vpc = "built" /\ iters[c].open /\ iters[c].ret = "NewToken") =>
            LET n == NewTokenCount(iters[c].out)
                entries == NormalEntries(iters[c].first_byte)
            IN  /\ n <= Len(entries)
                /\ get_current_token_id(iters[c]) = Some(entries[n][1])

(* C4: Vocabulary::new panics exactly when id_to_token has 2^24 entries or    *)
(* more, and returns a Vocabulary otherwise.                                  *)
C4_PanicsIffTooManyEntries ==
    vpc # "start" =>
        /\ vpc = "panicked" <=> MapLen(args.id_to_token) >= 16777216
        /\ vpc = "built" <=> MapLen(args.id_to_token) <= 16777215

\* construction was fatal with exactly 2^24 entries
C4_Witness == vpc = "panicked" /\ MapLen(args.id_to_token) = 16777216

(* C6: a cursor never panics; it has consumed 4 bytes per NewToken marker and *)
(* 1 per TokenByte, never more than its row holds, so it yields at most as    *)
(* many items as the row has bytes; it returns None only at the end of the    *)
(* row; and no TokenByte it yields is 0xFF.                                   *)
C6_CursorIsSafe ==
    \A c \in CursorIds :
        (vpc = "built" /\ iters[c].open) =>
            LET it == iters[c]
                slice == RowSlice(it.first_byte)
            IN  /\ it.ret # "panic"
                /\ it.pos = 4 * NewTokenCount(it.out) + TokenByteCount(it.out)
                /\ it.pos <= Len(slice)
                /\ it.ret = "None" => it.pos = Len(slice)
                /\ \A k \in 1..Len(it.out) :
                      it.out[k].item = "TokenByte" => it.out[k].byte[1] \in 0..254

\* a cursor went through a run whose id bytes hold 0xFF and came to the end
C6_Witness ==
    /\ vpc = "built"
    /\ iters[1].open
    /\ iters[1].ret = "None"
    /\ NewTokenCount(iters[1].out) = 2
    /\ \E k \in 1..Len(iters[1].out) : iters[1].out[k] = Yielded("NewToken", None, Some(255))
    /\ RowSlice(iters[1].first_byte)[2] = 255

-----------------------------------------------------------------------------
(* SpecLookup: Vocabulary::new is given three maps that need not agree, and   *)
(* the point lookups are called.                                             *)

LookupIds == {1, 255}
LookupTokens == {t \in Tokens : Len(t) <= 1}
\* an id that is in none of the maps
UnusedIds == {7}

SmallMaps(keys, values) ==
    UNION {[D -> values] : D \in {X \in SUBSET keys : Cardinality(X) <= MaxEntries}}

NextLookup ==
    \/ /\ vpc = "start"
       /\ \E t2i \in SmallMaps(LookupTokens, LookupIds),
             small \in SmallMaps(LookupIds, LookupTokens) :
            \E i2s \in {StringsOf(small), <<>>}, order \in Orders(DOMAIN small) :
               New(t2i, [small |-> small, bulk |-> 0], i2s, order)
    \/ \E t \in LookupTokens : GetTokenIdFromToken(t)
    \/ \E i \in LookupIds \cup UnusedIds : GetTokenFromTokenId(i)
    \/ \E i \in LookupIds \cup UnusedIds : GetTokenStringFromTokenId(i)
    \/ GetVocabSize

SpecLookup == Init /\ [][NextLookup]_vars

\* the caller derived token_to_id from id_to_token: it maps exactly the tokens of
\* id_to_token, each to an id that id_to_token maps back to it
TokenToIdIsDerived ==
    /\ DOMAIN token_to_id = Range(id_to_token.small)
    /\ \A t \in DOMAIN token_to_id :
          /\ token_to_id[t] \in DOMAIN id_to_token.small
          /\ id_to_token.small[token_to_id[t]] = t

(* C5 as claimed, for the callers that derive token_to_id from id_to_token:   *)
(* every token t registered with id i (an entry (i, t) of id_to_token) has    *)
(* get_token_id_from_token(t) = Some(i) and get_token_from_token_id(i) =      *)
(* Some(t).                                                                   *)
C5_RoundTripForEveryEntry ==
    (vpc = "built" /\ TokenToIdIsDerived) =>
        \A i \in DOMAIN id_to_token.small :
            /\ get_token_id_from_token(id_to_token.small[i]) = Some(i)
            /\ get_token_from_token_id(i) = Some(id_to_token.small[i])

\* the pairs on which the maps handed to Vocabulary::new agree
AgreedPairs ==
    {p \in (DOMAIN args.token_to_id) \X (DOMAIN args.id_to_token.small) :
        args.token_to_id[p[1]] = p[2] /\ args.id_to_token.small[p[2]] = p[1]}

(* C5, amended: each lookup answers from the map it was handed: Some(value)   *)
(* for a key of that map and None for any other key; so the round trip holds  *)
(* for exactly the pairs (t, i) on which token_to_id and id_to_token, as      *)
(* handed to Vocabulary::new, agree.                                          *)
C5_LookupsAnswerFromTheGivenMaps ==
    vpc = "built" =>
        /\ lookup.op = "get_token_id_from_token" =>
              lookup.result = IF lookup.key \in DOMAIN args.token_to_id
                              THEN Some(args.token_to_id[lookup.key]) ELSE None
        /\ lookup.op = "get_token_from_token_id" =>
              lookup.result = IF lookup.key \in DOMAIN args.id_to_token.small
                              THEN Some(args.id_to_token.small[lookup.key]) ELSE None
        /\ lookup.op = "get_token_string_from_token_id" =>
              lookup.result = IF lookup.key \in DOMAIN args.id_to_token_string
                              THEN Some(args.id_to_token_string[lookup.key]) ELSE None
        /\ lookup.op = "get_vocab_size" =>
              lookup.result = Cardinality(DOMAIN args.id_to_token.small)
        /\ \A t \in LookupTokens, i \in LookupIds \cup UnusedIds :
              (get_token_id_from_token(t) = Some(i) /\ get_token_from_token_id(i) = Some(t))
                 <=> <<t, i>> \in AgreedPairs

\* a lookup of a key that is not registered returned None, in a Vocabulary where
\* some pair round-trips and some entry of id_to_token does not
C5_Witness ==
    /\ vpc = "built"
    /\ lookup.op = "get_token_id_from_token"
    /\ lookup.key \notin DOMAIN args.token_to_id
    /\ lookup.result = None
    /\ AgreedPairs # {}
    /\ \E i \in DOMAIN id_to_token.small :
          get_token_id_from_token(id_to_token.small[i]) # Some(i)

-----------------------------------------------------------------------------
(* SpecReaders: two cursors and the other read-only calls, interleaved, on a  *)
(* Vocabulary of a few tokens.                                                *)

ReaderBytes == {97, TOKEN_SEPARATOR}
ReaderTokens == {t \in Tokens : \A k \in 1..Len(t) : t[k] \in ReaderBytes}

NextReaders ==
    \/ /\ vpc = "start"
       /\ \E small \in SmallMaps(LookupIds, ReaderTokens) :
            \E order \in Orders(DOMAIN small) :
               New(InverseOf(small), [small |-> small, bulk |-> 0], StringsOf(small), order)
    \/ \E c \in CursorIds, b \in ReaderBytes : GetNormalTokensFromFirstByte(c, b)
    \/ \E c \in CursorIds : TokensIterNext(c)
    \/ \E c \in CursorIds : GetCurrentTokenId(c)
    \/ GetTokensContainingSeparators
    \/ GetTokenFromTokenId(1)
    \/ GetTokenIdFromToken(<<97>>)

SpecReaders == Init /\ [][NextReaders]_vars

\* the number of next() calls cursor `it` has answered
CallsMade(it) == Len(it.out) + (IF it.ret \in {"None", "panic"} THEN 1 ELSE 0)

\* a cursor over row first_byte after n calls of next(), with no other reader
RECURSIVE AloneAfter(_, _)
AloneAfter(first_byte, n) ==
    IF n = 0 THEN FreshIter(first_byte)
    ELSE IterNext(AloneAfter(first_byte, n - 1), RowSlice(first_byte))

(* C10: once Vocabulary::new has returned, no step changes the Vocabulary;    *)
(* and under every interleaving each cursor is what a cursor run alone over   *)
(* its row is after the same number of next() calls: the same items, the same *)
(* current token ids, the same position.  A cursor obtained again starts      *)
(* anew, so it replays the row.                                               *)
C10_ReadersDoNotInterfere ==
    /\ [][vpc = "built" => (vpc' = "built" /\ vocab' = vocab /\ iter_order' = iter_order)]_vars
    /\ [](\A c \in CursorIds :
            (vpc = "built" /\ iters[c].open) =>
                iters[c] = AloneAfter(iters[c].first_byte, CallsMade(iters[c])))

\* two cursors over the same row, one at its end and one restarted and part-way,
\* after another read-only call
C10_Witness ==
    /\ vpc = "built"
    /\ iters[1].open /\ iters[2].open
    /\ iters[1].first_byte = iters[2].first_byte
    /\ iters[1].ret = "None" /\ Len(iters[1].out) >= 4
    /\ iters[2].ret = "TokenByte" /\ Len(iters[2].out) = 2
    /\ lookup.op = "get_tokens_containing_separators"

-----------------------------------------------------------------------------
(* SpecSizing: a grammar grows by nonterminals, alternatives, terminals and   *)
(* automata, and the scans are run over it.                                   *)

Symbols == {[node |-> "TERMINAL", id |-> 0], [node |-> "NONTERMINAL", id |-> 0]}
\* the alternatives of at most n symbols
Alternatives(n) ==
    {[concatenations |-> c] : c \in UNION {[1..k -> Symbols] : k \in 0..n}}
\* "a", "abc" and the two bytes of U+00E9
TerminalStrings == {<<97>>, <<97, 98, 99>>, <<195, 169>>}
StateLens == {2, 4}

\* the nodes the grammar can still take
Room == MaxNodes - GrammarNodes(grammar)

NextSizing ==
    \/ \E n \in 0..2 : \E alts \in [1..n -> Alternatives(Room - 1 - n)] :
          /\ GrammarNodes([grammar EXCEPT !.expressions =
                              Append(@, [alternations |-> alts])]) <= MaxNodes
          /\ AddNonterminal(alts)
    \/ \E r \in DOMAIN grammar.expressions, alt \in Alternatives(Room - 1) :
          AddAlternative(r, alt)
    \/ \E bytes \in TerminalStrings :
          Len(grammar.terminals) < MaxAutomata /\ InternTerminal(bytes)
    \/ \E n \in StateLens : Len(grammar.id_to_regex) < MaxAutomata /\ AddRegex(n)
    \/ \E n \in StateLens : Len(grammar.id_to_excepted) < MaxAutomata /\ AddExcepted(n)
    \/ FindSizes

SpecSizing == Init /\ [][NextSizing]_vars

SetMax(S) == IF S = {} THEN 0 ELSE CHOOSE m \in S : \A n \in S : n <= m

StateCounts(g) ==
    {g.id_to_regex[k].state_len : k \in DOMAIN g.id_to_regex}
        \cup {g.id_to_excepted[k].state_len : k \in DOMAIN g.id_to_excepted}
TerminalLengths(g) == {Len(g.terminals[k]) : k \in DOMAIN g.terminals}
AlternativeLengths(g) ==
    UNION {{Len(g.expressions[r].alternations[a].concatenations) :
               a \in DOMAIN g.expressions[r].alternations} : r \in DOMAIN g.expressions}
AlternativeCounts(g) == {Len(g.expressions[r].alternations) : r \in DOMAIN g.expressions}

(* C7 as claimed: find_max_state_id_from_ebnf_grammar returns the largest     *)
(* number of states of a regex or except automaton plus the length in bytes   *)
(* of the longest interned terminal.                                          *)
C7_StatesPlusLongestTerminal ==
    sizes # None =>
        sizes[1].max_state_id =
            SetMax(StateCounts(grammar)) + SetMax(TerminalLengths(grammar))

(* C7, amended: find_max_state_id_from_ebnf_grammar returns the larger of the *)
(* two: the largest number of states of a regex or except automaton, or the   *)
(* length in bytes of the longest interned terminal (0 for a grammar with     *)
(* neither).                                                                  *)
C7_LargerOfStatesAndLongestTerminal ==
    sizes # None =>
        sizes[1].max_state_id =
            Max2(SetMax(StateCounts(grammar)), SetMax(TerminalLengths(grammar)))

\* a scan of a grammar with a terminal, a regex and an except automaton, where the
\* except automaton is the largest
C7_Witness ==
    /\ sizes # None
    /\ grammar.terminals # <<>> /\ grammar.id_to_regex # <<>> /\ grammar.id_to_excepted # <<>>
    /\ sizes[1].max_state_id = grammar.id_to_excepted[1].state_len
    /\ sizes[1].max_state_id > grammar.id_to_regex[1].state_len
    /\ sizes[1].max_state_id > Len(grammar.terminals[1])

(* C8: a scan returns, as max dotted position, the length of the longest      *)
(* alternative (0 without alternatives) and, as max production id, the        *)
(* largest number of alternatives of a nonterminal; and neither scan result   *)
(* decreases when a nonterminal or an alternative is added to the grammar.    *)
C8_SizingIsMonotone ==
    /\ [](sizes # None =>
            /\ sizes[1].max_dotted_position = SetMax(AlternativeLengths(grammar))
            /\ sizes[1].max_production_id = SetMax(AlternativeCounts(grammar)))
    /\ [][/\ find_max_dotted_position_from_ebnf_grammar(grammar')
               >= find_max_dotted_position_from_ebnf_grammar(grammar)
          /\ find_max_production_id_from_ebnf_grammar(grammar')
               >= find_max_production_id_from_ebnf_grammar(grammar)]_vars

\* a scan of a grammar that got a shorter alternative after its longest one and
\* then a nonterminal with fewer alternatives than its first
C8_Witness ==
    /\ sizes # None
    /\ Len(grammar.expressions) = 2
    /\ Len(grammar.expressions[1].alternations) = 2
    /\ Len(grammar.expressions[2].alternations) = 0
    /\ Len(grammar.expressions[1].alternations[1].concatenations) = 1
    /\ grammar.expressions[1].alternations[2].concatenations = <<>>
    /\ sizes[1].max_dotted_position = 1
    /\ sizes[1].max_production_id = 2

-----------------------------------------------------------------------------
(* SpecPipeline: construct_ebnf_grammar is called and runs to its return.     *)

GrammarTexts == {"start ::= 'a';", "start ::= other;", "start ::= #'(", ""}
StartNonterminals == {"start", "root"}
MinTerminals == {2, 5}

NextPipeline ==
    \/ \E input \in GrammarTexts, start \in StartNonterminals, min \in MinTerminals :
          CallConstructEbnfGrammar(input, InternalConfig(start, min))
    \/ GetGrammarReturns
    \/ ValidateGrammarReturns
    \/ SimplifyGrammarReturns

SpecPipeline == Init /\ [][NextPipeline]_vars

CallNames == [k \in DOMAIN calls |-> calls[k].fn]
IsPrefix(s, t) == Len(s) <= Len(t) /\ s = SubSeq(t, 1, Len(s))

(* C9: construct_ebnf_grammar calls get_grammar, validate_grammar and         *)
(* simplify_grammar in that order, each at most once; when it has returned,   *)
(* the result is either Ok with the grammar simplify_grammar returned or Err  *)
(* with no grammar; a parse failure gives the parse error after get_grammar   *)
(* alone, a validation failure the validation error after get_grammar and     *)
(* validate_grammar alone, and the result is Ok exactly when both succeeded.  *)
C9_ParseValidateSimplifyInOrder ==
    /\ IsPrefix(CallNames, <<"get_grammar", "validate_grammar", "simplify_grammar">>)
    /\ ppc # "done" => result = None
    /\ ppc = "done" =>
          /\ result # None
          /\ result[1].ok \in BOOLEAN
          /\ result[1].ok =>
                /\ result[1].value.form = "simplified"
                /\ result[1].error = None
                /\ CallNames = <<"get_grammar", "validate_grammar", "simplify_grammar">>
          /\ ~result[1].ok =>
                /\ result[1].value = None
                /\ result[1].error # None
          /\ ~stage.parsed.ok =>
                /\ CallNames = <<"get_grammar">>
                /\ ~result[1].ok
                /\ result[1].error[1].grammar_error.kind = stage.parsed.error.kind
                /\ Len(result[1].error[1].grammar_error.errors) = Len(stage.parsed.error.errors)
                /\ \A k \in DOMAIN stage.parsed.error.errors :
                      result[1].error[1].grammar_error.errors[k].slice
                         = stage.parsed.error.errors[k].slice
          /\ (stage.parsed.ok /\ ~stage.validated.ok) =>
                /\ CallNames = <<"get_grammar", "validate_grammar">>
                /\ ~result[1].ok
                /\ result[1].error[1].grammar_error = stage.validated.error
          /\ result[1].ok <=> (stage.parsed.ok /\ stage.validated.ok)

\* validation failed after a successful parse, and the call has returned
C9_Witness ==
    /\ ppc = "done"
    /\ stage.parsed.ok
    /\ ~stage.validated.ok
    /\ ~result[1].ok
    /\ Len(calls) = 2

-----------------------------------------------------------------------------
\* the keys spelled out in id_to_token whose token has no byte; the bulk entries
\* are zero-length as well
ZeroLengthIds == {i \in DOMAIN id_to_token.small : id_to_token.small[i] = <<>>}
ZeroLengthCount == Cardinality(ZeroLengthIds) + id_to_token.bulk

\* the NewToken markers of all 256 rows, each read by a cursor of its own
TotalNewTokens ==
    NewTokenCount(Flatten([k \in 1..256 |-> RunAlone(k - 1).out]))

(* C11: in every Vocabulary that Vocabulary::new returns, the NewToken        *)
(* markers of all 256 rows, the elements of get_tokens_containing_separators  *)
(* and the zero-length tokens of id_to_token add up to get_vocab_size();      *)
(* no run of any row and no element of the overflow list carries a            *)
(* zero-length token; every zero-length entry is still returned by            *)
(* get_token_from_token_id; and the row of first byte 0xFF is empty.          *)
C11_ThreeWayPartition ==
    vpc = "built" =>
        /\ TotalNewTokens + Len(get_tokens_containing_separators) + ZeroLengthCount
              = get_vocab_size
        /\ \A b \in Bytes :
              LET runs == RunsOf(RunAlone(b).out)
              IN  \A k \in 1..Len(runs) : runs[k].bytes # <<>> /\ runs[k].bytes[1] = b
        /\ \A k \in 1..Len(get_tokens_containing_separators) :
              /\ get_tokens_containing_separators[k][2] # <<>>
              /\ get_tokens_containing_separators[k][1] \notin ZeroLengthIds
        /\ \A i \in ZeroLengthIds : get_token_from_token_id(i) = Some(<<>>)
        /\ id_to_token.bulk > 0 =>
              /\ get_token_from_token_id(BulkBase) = Some(<<>>)
              /\ get_token_from_token_id(BulkBase + id_to_token.bulk - 1) = Some(<<>>)
        /\ RowSlice(TOKEN_SEPARATOR) = <<>>
        /\ RunAlone(TOKEN_SEPARATOR).out = <<>>

\* one token of each part: a normal one, one that starts with 0xFF, and a
\* zero-length one
C11_Witness ==
    /\ vpc = "built"
    /\ TotalNewTokens = 1
    /\ Len(get_tokens_containing_separators) = 1
    /\ get_tokens_containing_separators[1][2][1] = TOKEN_SEPARATOR
    /\ ZeroLengthCount = 1
    /\ get_vocab_size = 3

====
